---- MODULE Spec2Model ----
(***************************************************************************)
(* Conversions from ethers types (primitives/src/ethers.rs):               *)
(*   EthersAccessList   -> AccessList        (From,    infallible)         *)
(*   Option<EthersH160> -> TransactionKind   (From,    infallible)         *)
(*   EthersBlock        -> Header            (TryFrom)                     *)
(*   EthersTransaction  -> Transaction       (TryFrom)                     *)
(*   EthersWithdrawal   -> Withdrawal        (TryFrom)                     *)
(*                                                                         *)
(* Every conversion is a pure function of one external record.  The state  *)
(* is the record handed to a conversion (kind, input) and the value the    *)
(* call produced (result).  A 256-bit integer is its four limbs, least     *)
(* significant first; the limb modulus 2^64 is scaled down to WordBase.    *)
(* Byte arrays (H160, H256, H64, Bloom, Bytes) are sequences of bytes.     *)
(*                                                                         *)
(* An anyhow error is rendered by its message: "<field> missing" is        *)
(* Err("missing", field) and "invalid <field>: .." is                      *)
(* Err("invalid", field).  A panic (unreachable!()) is the result Panic.   *)
(***************************************************************************)
EXTENDS Integers, Sequences, FiniteSets, TLC

VARIABLES kind, input, result

vars == <<kind, input, result>>

(***************************************************************************)
(* Bounds of the model.                                                    *)
(***************************************************************************)
\* the limb modulus (2^64 in the program)
WordBase == 2
\* transaction type discriminants 0..MaxTxType are tried, besides None
MaxTxType == 3
\* longest access list, and longest list of storage keys of one item
MaxListLen == 2

\* limbs of an ethers U256 (the [u64; 4] passed to U256::from_limbs)
NumLimbs == 4

U64Max == WordBase - 1

(***************************************************************************)
(* Option<T>: None is the empty sequence, Some(x) the one-element one.     *)
(***************************************************************************)
None == <<>>

Some(x) == <<x>>

IsSome(o) == o # None

Unwrap(o) == o[1]

OptionOf(S) == {None} \cup {Some(x) : x \in S}

(***************************************************************************)
(* Results.                                                                *)
(***************************************************************************)
Pending == [tag |-> "Pending"]

Panic == [tag |-> "Panic"]

Ok(v) == [tag |-> "Ok", val |-> v]

Err(k, f) == [tag |-> "Err", kind |-> k, field |-> f]

IsErr(r) == r.tag = "Err"

(***************************************************************************)
(* Value sets the inputs are drawn from.                                   *)
(***************************************************************************)
U64Vals == 0..U64Max

\* every 256-bit value
U256Vals == [1..NumLimbs -> U64Vals]

\* 256-bit values with at most one high limb set (any low limb)
U256Some == {v \in U256Vals : Cardinality({i \in 2..NumLimbs : v[i] # 0}) <= 1}

\* the largest value below 2^64 and a value not below it, for the fields
\* that are copied at full width
U256Low == [i \in 1..NumLimbs |-> IF i = 1 THEN U64Max ELSE 0]

U256High == [i \in 1..NumLimbs |-> IF i = NumLimbs THEN 1 ELSE 0]

H160Vals == {<<1, 2>>, <<2, 1>>}

H256Vals == {<<1, 2, 3>>, <<3, 2, 1>>}

\* the numeric value of a 256-bit integer
U256Value(v) ==
    v[1] + WordBase * (v[2] + WordBase * (v[3] + WordBase * v[4]))

(***************************************************************************)
(* Same-width conversions: the limbs or bytes are copied one by one.       *)
(***************************************************************************)
from_ethers_u256(v) == [i \in 1..NumLimbs |-> v[i]]

from_ethers_h160(v) == [i \in 1..Len(v) |-> v[i]]

from_ethers_h256(v) == [i \in 1..Len(v) |-> v[i]]

\* `.0.into()` on a fixed byte array or on Bytes
BytesInto(b) == [i \in 1..Len(b) |-> b[i]]

(***************************************************************************)
(* Narrowing a U256 into a u64 (`.try_into()`): the value fits when every  *)
(* limb above the lowest is zero, and the result is then the lowest limb.  *)
(***************************************************************************)
\* variant of TryIntoU64: an `as u64` cast, which keeps the lowest limb
TryIntoU64_Truncating(v) == Ok(v[1])

TryIntoU64(v) ==
    IF \A i \in 2..NumLimbs : v[i] = 0
    THEN Ok(v[1])
    ELSE [tag |-> "Err"]

\* `.try_into().map_err(|err| anyhow!("invalid <field>: {}", err))`
Narrow(v, field) ==
    LET r == TryIntoU64(v)
    IN  IF IsErr(r) THEN Err("invalid", field) ELSE r

\* `.context("<field> missing")` on an Option
Context(o, field) ==
    IF IsSome(o) THEN Ok(Unwrap(o)) ELSE Err("missing", field)

(***************************************************************************)
(* Access lists.                                                           *)
(***************************************************************************)
\* variant of AccessListItemFrom: the storage keys come out in reverse
AccessListItemFrom_Reversed(item) ==
    [address      |-> BytesInto(item.address),
     storage_keys |-> [j \in 1..Len(item.storage_keys) |->
                          BytesInto(item.storage_keys[
                              Len(item.storage_keys) + 1 - j])]]

AccessListItemFrom(item) ==
    [address      |-> BytesInto(item.address),
     storage_keys |-> [j \in 1..Len(item.storage_keys) |->
                          BytesInto(item.storage_keys[j])]]

AccessListFrom(list) ==
    [i \in 1..Len(list) |-> AccessListItemFrom(list[i])]

(***************************************************************************)
(* Destination of a transaction.                                           *)
(***************************************************************************)
Create == [kind |-> "Create"]

Call(a) == [kind |-> "Call", address |-> a]

\* variant of TransactionKindFrom: an absent address is a call to the
\* default (zero) address
TransactionKindFrom_DefaultAddress(addr) ==
    IF IsSome(addr) THEN Call(BytesInto(Unwrap(addr))) ELSE Call(<<0, 0>>)

TransactionKindFrom(addr) ==
    IF IsSome(addr) THEN Call(BytesInto(Unwrap(addr))) ELSE Create

(***************************************************************************)
(* The `?` operator.  The fallible fields of a struct expression are       *)
(* evaluated in the order they are written and the first error returns     *)
(* from the function; `steps` lists their results in that order.           *)
(***************************************************************************)
HasErr(steps) == \E i \in 1..Len(steps) : IsErr(steps[i])

\* variant of FirstErr: every field is evaluated and the last error is kept
FirstErr_LastKept(steps) ==
    steps[CHOOSE i \in 1..Len(steps) :
              /\ IsErr(steps[i])
              /\ \A j \in (i + 1)..Len(steps) : ~IsErr(steps[j])]

FirstErr(steps) ==
    steps[CHOOSE i \in 1..Len(steps) :
              /\ IsErr(steps[i])
              /\ \A j \in 1..(i - 1) : ~IsErr(steps[j])]

(***************************************************************************)
(* Header::try_from.                                                       *)
(***************************************************************************)
\* variant of HeaderSteps: nonce is looked at before mix_hash
HeaderSteps_NonceFirst(block) ==
    <<Context(block.author, "author"),
      Context(block.logs_bloom, "logs_bloom"),
      Context(block.number, "number"),
      Context(block.nonce, "nonce"),
      Context(block.mix_hash, "mix_hash"),
      Context(block.base_fee_per_gas, "base_fee_per_gas")>>

\* variant of HeaderSteps: the withdrawals root is demanded like the others
HeaderSteps_WithdrawalsRootDemanded(block) ==
    <<Context(block.author, "author"),
      Context(block.logs_bloom, "logs_bloom"),
      Context(block.number, "number"),
      Context(block.mix_hash, "mix_hash"),
      Context(block.nonce, "nonce"),
      Context(block.base_fee_per_gas, "base_fee_per_gas"),
      Context(block.withdrawals_root, "withdrawals_root")>>

HeaderSteps(block) ==
    <<Context(block.author, "author"),
      Context(block.logs_bloom, "logs_bloom"),
      Context(block.number, "number"),
      Context(block.mix_hash, "mix_hash"),
      Context(block.nonce, "nonce"),
      Context(block.base_fee_per_gas, "base_fee_per_gas")>>

\* `block.withdrawals_root.map(from_ethers_h256)`
HeaderWithdrawalsRoot(block) ==
    IF IsSome(block.withdrawals_root)
    THEN Some(from_ethers_h256(Unwrap(block.withdrawals_root)))
    ELSE None

HeaderTryFrom(block) ==
    LET st == HeaderSteps(block)
    IN  IF HasErr(st) THEN FirstErr(st)
        ELSE Ok([parent_hash       |-> from_ethers_h256(block.parent_hash),
                 ommers_hash       |-> from_ethers_h256(block.uncles_hash),
                 beneficiary       |-> from_ethers_h160(st[1].val),
                 state_root        |-> from_ethers_h256(block.state_root),
                 transactions_root |-> from_ethers_h256(block.transactions_root),
                 receipts_root     |-> from_ethers_h256(block.receipts_root),
                 logs_bloom        |-> BytesInto(st[2].val),
                 difficulty        |-> from_ethers_u256(block.difficulty),
                 number            |-> st[3].val,
                 gas_limit         |-> from_ethers_u256(block.gas_limit),
                 gas_used          |-> from_ethers_u256(block.gas_used),
                 timestamp         |-> from_ethers_u256(block.timestamp),
                 extra_data        |-> BytesInto(block.extra_data),
                 mix_hash          |-> BytesInto(st[4].val),
                 nonce             |-> BytesInto(st[5].val),
                 base_fee_per_gas  |-> from_ethers_u256(st[6].val),
                 withdrawals_root  |-> HeaderWithdrawalsRoot(block)])

(***************************************************************************)
(* Transaction::try_from.                                                  *)
(***************************************************************************)
\* variant of MatchArm: the arms of 1 and 2 are exchanged
MatchArm_TypedSwapped(transaction_type) ==
    IF transaction_type = None \/ transaction_type = Some(0) THEN "Legacy"
    ELSE IF transaction_type = Some(1) THEN "Eip1559"
    ELSE IF transaction_type = Some(2) THEN "Eip2930"
    ELSE "unreachable"

\* variant of MatchArm: `_` is an arm of Legacy instead of unreachable!()
MatchArm_DefaultLegacy(transaction_type) ==
    IF transaction_type = Some(1) THEN "Eip2930"
    ELSE IF transaction_type = Some(2) THEN "Eip1559"
    ELSE "Legacy"

\* the arm of `match tx.transaction_type.map(|t| t.as_u64())`
MatchArm(transaction_type) ==
    IF transaction_type = None \/ transaction_type = Some(0) THEN "Legacy"
    ELSE IF transaction_type = Some(1) THEN "Eip2930"
    ELSE IF transaction_type = Some(2) THEN "Eip1559"
    ELSE "unreachable"

\* variant of LegacyChainId: the chain id is demanded as in the typed arms
LegacyChainId_Mandatory(chain_id) ==
    IF chain_id = None
    THEN Err("missing", "chain_id")
    ELSE LET r == Narrow(Unwrap(chain_id), "chain_id")
         IN  IF IsErr(r) THEN r ELSE Ok(Some(r.val))

\* chain_id of the Legacy arm: `match tx.chain_id { None => None, Some(..) }`
LegacyChainId(chain_id) ==
    IF chain_id = None
    THEN Ok(None)
    ELSE LET r == Narrow(Unwrap(chain_id), "chain_id")
         IN  IF IsErr(r) THEN r ELSE Ok(Some(r.val))

\* chain_id of the Eip2930 and Eip1559 arms: context(..)?.try_into()..?
TypedChainId(chain_id) ==
    LET c == Context(chain_id, "chain_id")
    IN  IF IsErr(c) THEN c ELSE Narrow(c.val, "chain_id")

\* variant of LegacySteps: an absent gas price defaults to zero
LegacySteps_GasPriceDefaulted(tx) ==
    <<LegacyChainId(tx.chain_id),
      Narrow(tx.nonce, "nonce"),
      IF IsSome(tx.gas_price) THEN Ok(Unwrap(tx.gas_price))
      ELSE Ok([i \in 1..NumLimbs |-> 0])>>

LegacySteps(tx) ==
    <<LegacyChainId(tx.chain_id),
      Narrow(tx.nonce, "nonce"),
      Context(tx.gas_price, "gas_price")>>

LegacyArm(tx) ==
    LET st == LegacySteps(tx)
    IN  IF HasErr(st) THEN FirstErr(st)
        ELSE Ok([variant   |-> "Legacy",
                 chain_id  |-> st[1].val,
                 nonce     |-> st[2].val,
                 gas_price |-> from_ethers_u256(st[3].val),
                 gas_limit |-> from_ethers_u256(tx.gas),
                 to        |-> TransactionKindFrom(tx.to),
                 value     |-> from_ethers_u256(tx.value),
                 data      |-> BytesInto(tx.input)])

Eip2930Steps(tx) ==
    <<TypedChainId(tx.chain_id),
      Narrow(tx.nonce, "nonce"),
      Context(tx.gas_price, "gas_price"),
      Context(tx.access_list, "access_list")>>

Eip2930Arm(tx) ==
    LET st == Eip2930Steps(tx)
    IN  IF HasErr(st) THEN FirstErr(st)
        ELSE Ok([variant     |-> "Eip2930",
                 chain_id    |-> st[1].val,
                 nonce       |-> st[2].val,
                 gas_price   |-> from_ethers_u256(st[3].val),
                 gas_limit   |-> from_ethers_u256(tx.gas),
                 to          |-> TransactionKindFrom(tx.to),
                 value       |-> from_ethers_u256(tx.value),
                 access_list |-> AccessListFrom(st[4].val),
                 data        |-> BytesInto(tx.input)])

Eip1559Steps(tx) ==
    <<TypedChainId(tx.chain_id),
      Narrow(tx.nonce, "nonce"),
      Context(tx.max_priority_fee_per_gas, "max_priority_fee_per_gas"),
      Context(tx.max_fee_per_gas, "max_fee_per_gas"),
      Context(tx.access_list, "access_list")>>

Eip1559Arm(tx) ==
    LET st == Eip1559Steps(tx)
    IN  IF HasErr(st) THEN FirstErr(st)
        ELSE Ok([variant                  |-> "Eip1559",
                 chain_id                 |-> st[1].val,
                 nonce                    |-> st[2].val,
                 max_priority_fee_per_gas |-> from_ethers_u256(st[3].val),
                 max_fee_per_gas          |-> from_ethers_u256(st[4].val),
                 gas_limit                |-> from_ethers_u256(tx.gas),
                 to                       |-> TransactionKindFrom(tx.to),
                 value                    |-> from_ethers_u256(tx.value),
                 access_list              |-> AccessListFrom(st[5].val),
                 data                     |-> BytesInto(tx.input)])

\* the signature is built after the essence; v is a U64 and `as_u64` its value
TransactionTryFrom(tx) ==
    LET arm == MatchArm(tx.transaction_type)
        essence == CASE arm = "Legacy"  -> LegacyArm(tx)
                     [] arm = "Eip2930" -> Eip2930Arm(tx)
                     [] arm = "Eip1559" -> Eip1559Arm(tx)
                     [] OTHER           -> Panic
    IN  IF essence.tag # "Ok" THEN essence
        ELSE Ok([essence   |-> essence.val,
                 signature |-> [v |-> tx.v,
                                r |-> from_ethers_u256(tx.r),
                                s |-> from_ethers_u256(tx.s)]])

(***************************************************************************)
(* Withdrawal::try_from.                                                   *)
(***************************************************************************)
WithdrawalTryFrom(withdrawal) ==
    LET amount == Narrow(withdrawal.amount, "amount")
    IN  IF IsErr(amount) THEN amount
        ELSE Ok([index           |-> withdrawal.index,
                 validator_index |-> withdrawal.validator_index,
                 address         |-> BytesInto(withdrawal.address),
                 amount          |-> amount.val])

(***************************************************************************)
(* The external records handed to the conversions.                         *)
(***************************************************************************)
SeqsUpTo(S, n) == UNION {[1..k -> S] : k \in 0..n}

EthersAccessListItems ==
    [address : H160Vals, storage_keys : SeqsUpTo(H256Vals, MaxListLen)]

EthersAccessLists == SeqsUpTo(EthersAccessListItems, MaxListLen)

\* the access lists tried inside a transaction: [], and [A(k1, k2), B]
TxAccessLists ==
    {<<>>,
     <<[address |-> <<1, 2>>, storage_keys |-> << <<1, 2, 3>>, <<3, 2, 1>> >>],
       [address |-> <<2, 1>>, storage_keys |-> <<>>]>>}

\* the fields of a transaction that are always present and copied
TxCopied ==
    {[gas |-> U256Low, value |-> U256High, input |-> <<>>,
      v |-> 0, r |-> U256Low, s |-> U256High],
     [gas |-> U256High, value |-> U256Low, input |-> <<7, 9>>,
      v |-> U64Max, r |-> U256High, s |-> U256Low]}

EthersTransactions ==
    {[transaction_type |-> t, chain_id |-> c, nonce |-> n, gas_price |-> gp,
      max_priority_fee_per_gas |-> mp, max_fee_per_gas |-> mf,
      access_list |-> al, to |-> to,
      gas |-> f.gas, value |-> f.value, input |-> f.input,
      v |-> f.v, r |-> f.r, s |-> f.s] :
        t \in OptionOf(0..MaxTxType), c \in OptionOf(U256Some),
        n \in U256Some, gp \in OptionOf({U256High}),
        mp \in OptionOf({U256Low}),
        mf \in OptionOf({U256High}),
        al \in OptionOf(TxAccessLists), to \in OptionOf(H160Vals),
        f \in TxCopied}

\* the fields of a block that are always present and copied
BlockCopied ==
    {[parent_hash |-> <<1, 2, 3>>, uncles_hash |-> <<3, 2, 1>>,
      state_root |-> <<1, 2, 3>>, transactions_root |-> <<3, 2, 1>>,
      receipts_root |-> <<1, 2, 3>>, difficulty |-> U256Low,
      gas_limit |-> U256High, gas_used |-> U256Low, timestamp |-> U256High,
      extra_data |-> <<>>],
     [parent_hash |-> <<3, 2, 1>>, uncles_hash |-> <<1, 2, 3>>,
      state_root |-> <<3, 2, 1>>, transactions_root |-> <<1, 2, 3>>,
      receipts_root |-> <<3, 2, 1>>, difficulty |-> U256High,
      gas_limit |-> U256Low, gas_used |-> U256High, timestamp |-> U256Low,
      extra_data |-> <<7, 9>>]}

EthersBlocks ==
    {[parent_hash |-> f.parent_hash, uncles_hash |-> f.uncles_hash,
      author |-> a, state_root |-> f.state_root,
      transactions_root |-> f.transactions_root,
      receipts_root |-> f.receipts_root, logs_bloom |-> lb,
      difficulty |-> f.difficulty, number |-> nu, gas_limit |-> f.gas_limit,
      gas_used |-> f.gas_used, timestamp |-> f.timestamp,
      extra_data |-> f.extra_data, mix_hash |-> mh, nonce |-> no,
      base_fee_per_gas |-> bf, withdrawals_root |-> wr] :
        a \in OptionOf(H160Vals), lb \in OptionOf({<<4, 5, 6, 7>>}),
        nu \in OptionOf(U64Vals), mh \in OptionOf(H256Vals),
        no \in OptionOf({<<8, 9>>}), bf \in OptionOf({U256Low, U256High}),
        wr \in OptionOf(H256Vals), f \in BlockCopied}

EthersWithdrawals ==
    [index : U64Vals, validator_index : U64Vals, address : H160Vals,
     amount : U256Vals]

(***************************************************************************)
(* The state machine: a record is handed to one conversion, which runs     *)
(* once and leaves its result.                                             *)
(***************************************************************************)
Init ==
    /\ result = Pending
    /\ \/ kind = "transaction" /\ input \in EthersTransactions
       \/ kind = "block" /\ input \in EthersBlocks
       \/ kind = "withdrawal" /\ input \in EthersWithdrawals
       \/ kind = "access_list" /\ input \in EthersAccessLists
       \/ kind = "to" /\ input \in OptionOf(H160Vals)

ConvertTransaction ==
    /\ kind = "transaction"
    /\ result = Pending
    /\ result' = TransactionTryFrom(input)
    /\ UNCHANGED <<kind, input>>

ConvertHeader ==
    /\ kind = "block"
    /\ result = Pending
    /\ result' = HeaderTryFrom(input)
    /\ UNCHANGED <<kind, input>>

ConvertWithdrawal ==
    /\ kind = "withdrawal"
    /\ result = Pending
    /\ result' = WithdrawalTryFrom(input)
    /\ UNCHANGED <<kind, input>>

ConvertAccessList ==
    /\ kind = "access_list"
    /\ result = Pending
    /\ result' = Ok(AccessListFrom(input))
    /\ UNCHANGED <<kind, input>>

ConvertTransactionKind ==
    /\ kind = "to"
    /\ result = Pending
    /\ result' = Ok(TransactionKindFrom(input))
    /\ UNCHANGED <<kind, input>>

Next ==
    \/ ConvertTransaction
    \/ ConvertHeader
    \/ ConvertWithdrawal
    \/ ConvertAccessList
    \/ ConvertTransactionKind

Spec == Init /\ [][Next]_vars

Done == result.tag # "Pending"

TypeOK ==
    /\ kind \in {"transaction", "block", "withdrawal", "access_list", "to"}
    /\ result.tag \in {"Pending", "Ok", "Err", "Panic"}

(***************************************************************************)
(* Vocabulary of the properties, stated on the external record alone.      *)
(***************************************************************************)
TxDone == kind = "transaction" /\ Done

BlockDone == kind = "block" /\ Done

\* the value is at most 2^64 - 1
Fits64(v) == U256Value(v) <= U64Max

TypeLegacy(tx) == tx.transaction_type \in {None, Some(0)}

TypeEip2930(tx) == tx.transaction_type = Some(1)

TypeEip1559(tx) == tx.transaction_type = Some(2)

TypeKnown(tx) == TypeLegacy(tx) \/ TypeEip2930(tx) \/ TypeEip1559(tx)

VariantOfType(tx) ==
    CASE TypeLegacy(tx)  -> "Legacy"
      [] TypeEip2930(tx) -> "Eip2930"
      [] TypeEip1559(tx) -> "Eip1559"

\* the mandatory fields of a variant, in the builder's order
MandatoryFields(tx) ==
    CASE TypeLegacy(tx)  -> <<"gas_price">>
      [] TypeEip2930(tx) -> <<"chain_id", "gas_price", "access_list">>
      [] TypeEip1559(tx) -> <<"chain_id", "max_priority_fee_per_gas",
                              "max_fee_per_gas", "access_list">>

HeaderMandatoryFields ==
    <<"author", "logs_bloom", "number", "mix_hash", "nonce",
      "base_fee_per_gas">>

AllPresent(rec, fields) ==
    \A i \in 1..Len(fields) : IsSome(rec[fields[i]])

FirstAbsent(rec, fields) ==
    fields[CHOOSE i \in 1..Len(fields) :
               /\ rec[fields[i]] = None
               /\ \A j \in 1..(i - 1) : IsSome(rec[fields[j]])]

\* nonce and any present chain id fit in 64 bits
WellFormedTx(tx) ==
    /\ Fits64(tx.nonce)
    /\ IsSome(tx.chain_id) => Fits64(Unwrap(tx.chain_id))

(***************************************************************************)
(* C1: a well-formed transaction record of a known type that has every     *)
(* field mandatory for its variant converts successfully, and the variant  *)
(* of the essence is the one its type discriminant names (absent or 0:     *)
(* Legacy, 1: Eip2930, 2: Eip1559), whatever the other fields hold.        *)
(***************************************************************************)
C1_VariantByDiscriminant ==
    (/\ TxDone
     /\ TypeKnown(input)
     /\ WellFormedTx(input)
     /\ AllPresent(input, MandatoryFields(input)))
    => /\ result.tag = "Ok"
       /\ result.val.essence.variant = VariantOfType(input)

C1_Witness ==
    /\ TxDone
    /\ input.transaction_type = Some(2)
    /\ input.gas_price = None
    /\ result.tag = "Ok"
    /\ result.val.essence.variant = "Eip1559"

(***************************************************************************)
(* C2 as stated: a transaction record that is missing a field mandatory    *)
(* for its variant fails with the missing-field error naming a missing     *)
(* mandatory field, and with no other error.                               *)
(***************************************************************************)
C2_MissingFieldAlways ==
    (/\ TxDone
     /\ TypeKnown(input)
     /\ ~AllPresent(input, MandatoryFields(input)))
    => /\ result.tag = "Err"
       /\ result.kind = "missing"
       /\ \E i \in 1..Len(MandatoryFields(input)) :
              /\ result.field = MandatoryFields(input)[i]
              /\ input[result.field] = None

(***************************************************************************)
(* C2 amended: a well-formed transaction record (nonce and any present     *)
(* chain id fit in 64 bits) that is missing one or more fields mandatory   *)
(* for its variant fails with the missing-field error naming the first     *)
(* missing one in the builder's order, and with no other error.            *)
(***************************************************************************)
C2_MissingFieldWellFormed ==
    (/\ TxDone
     /\ TypeKnown(input)
     /\ WellFormedTx(input)
     /\ ~AllPresent(input, MandatoryFields(input)))
    => result = Err("missing", FirstAbsent(input, MandatoryFields(input)))

C2_Witness ==
    /\ TxDone
    /\ TypeEip1559(input)
    /\ WellFormedTx(input)
    /\ IsSome(input.chain_id)
    /\ IsSome(input.max_priority_fee_per_gas)
    /\ input.max_fee_per_gas = None
    /\ result = Err("missing", "max_fee_per_gas")

(***************************************************************************)
(* C3: narrowing a 256-bit value into a 64-bit field (withdrawal amount,   *)
(* transaction chain id, transaction nonce) fails with the invalid-number  *)
(* error of that field when the value exceeds 2^64 - 1, and otherwise      *)
(* yields exactly the same number; nothing is truncated, wrapped or        *)
(* saturated.  In a transaction the chain id is narrowed first and the     *)
(* nonce once the chain id step has passed.                                *)
(***************************************************************************)
ChainIdStepPasses(tx) ==
    IF IsSome(tx.chain_id) THEN Fits64(Unwrap(tx.chain_id)) ELSE TypeLegacy(tx)

C3_NarrowingExact ==
    /\ (kind = "withdrawal" /\ Done)
       => IF Fits64(input.amount)
          THEN /\ result.tag = "Ok"
               /\ result.val.amount = U256Value(input.amount)
          ELSE result = Err("invalid", "amount")
    /\ (TxDone /\ TypeKnown(input))
       => /\ (IsSome(input.chain_id) /\ ~Fits64(Unwrap(input.chain_id)))
             => result = Err("invalid", "chain_id")
          /\ (ChainIdStepPasses(input) /\ ~Fits64(input.nonce))
             => result = Err("invalid", "nonce")
          /\ result.tag = "Ok"
             => /\ Fits64(input.nonce)
                /\ result.val.essence.nonce = U256Value(input.nonce)
                /\ IsSome(input.chain_id)
                   => /\ Fits64(Unwrap(input.chain_id))
                      /\ result.val.essence.chain_id =
                            IF TypeLegacy(input)
                            THEN Some(U256Value(Unwrap(input.chain_id)))
                            ELSE U256Value(Unwrap(input.chain_id))

C3_Witness ==
    /\ kind = "withdrawal"
    /\ Done
    /\ input.amount[1] # 0
    /\ U256Value(input.amount) > U64Max
    /\ result = Err("invalid", "amount")

(***************************************************************************)
(* C4: Header conversion succeeds exactly when author, logs_bloom, number, *)
(* mix_hash, nonce and base_fee_per_gas are all present; otherwise it      *)
(* fails with the missing-field error naming the first absent one in that  *)
(* order, and no Header is produced.                                       *)
(***************************************************************************)
C4_HeaderMandatory ==
    BlockDone
    => IF AllPresent(input, HeaderMandatoryFields)
       THEN result.tag = "Ok"
       ELSE result = Err("missing", FirstAbsent(input, HeaderMandatoryFields))

C4_Witness ==
    /\ BlockDone
    /\ IsSome(input.author)
    /\ IsSome(input.logs_bloom)
    /\ IsSome(input.number)
    /\ input.mix_hash = None
    /\ input.nonce = None
    /\ input.base_fee_per_gas = None
    /\ result = Err("missing", "mix_hash")

(***************************************************************************)
(* C5: the withdrawals root never makes Header conversion fail: the        *)
(* conversion of a block record succeeds or fails, and fails with the      *)
(* same error, as that of the same record without a withdrawals root and   *)
(* as that of the same record with one; on success an absent root stays    *)
(* absent and a present root is carried over byte for byte.                *)
(***************************************************************************)
C5_WithdrawalsRootOptional ==
    BlockDone
    => /\ \A wr \in OptionOf(H256Vals) :
              LET other == HeaderTryFrom([input EXCEPT !.withdrawals_root = wr])
              IN  /\ other.tag = result.tag
                  /\ IsErr(result) => other = result
       /\ ~(IsErr(result) /\ result.field = "withdrawals_root")
       /\ result.tag = "Ok"
          => result.val.withdrawals_root = input.withdrawals_root

C5_Witness ==
    /\ BlockDone
    /\ input.withdrawals_root = None
    /\ result.tag = "Ok"
    /\ result.val.withdrawals_root = None

(***************************************************************************)
(* C6: a transaction record whose type discriminant is none of absent, 0,  *)
(* 1, 2 takes the fatal path: the conversion returns neither a Transaction *)
(* nor an error, whatever the other fields hold.                           *)
(***************************************************************************)
C6_UnknownTypeFatal ==
    (TxDone /\ ~TypeKnown(input)) => result = Panic

C6_Witness ==
    /\ TxDone
    /\ input.transaction_type = Some(3)
    /\ input.chain_id = None
    /\ input.gas_price = None
    /\ result = Panic

(***************************************************************************)
(* C7: the defects of a transaction record, in the builder's field order:  *)
(* chain id absent though mandatory, chain id too wide, nonce too wide,    *)
(* gas price (or either of the two fee fields) absent, access list absent. *)
(* A record with defects converts to exactly the error of its earliest     *)
(* defect and to no Transaction; a Transaction is produced only when the   *)
(* record has no defect.                                                   *)
(***************************************************************************)
Defects(tx) ==
    <<[bad |-> ~TypeLegacy(tx) /\ tx.chain_id = None,
       err |-> Err("missing", "chain_id")],
      [bad |-> IsSome(tx.chain_id) /\ ~Fits64(Unwrap(tx.chain_id)),
       err |-> Err("invalid", "chain_id")],
      [bad |-> ~Fits64(tx.nonce),
       err |-> Err("invalid", "nonce")],
      [bad |-> ~TypeEip1559(tx) /\ tx.gas_price = None,
       err |-> Err("missing", "gas_price")],
      [bad |-> TypeEip1559(tx) /\ tx.max_priority_fee_per_gas = None,
       err |-> Err("missing", "max_priority_fee_per_gas")],
      [bad |-> TypeEip1559(tx) /\ tx.max_fee_per_gas = None,
       err |-> Err("missing", "max_fee_per_gas")],
      [bad |-> ~TypeLegacy(tx) /\ tx.access_list = None,
       err |-> Err("missing", "access_list")]>>

DefectCount(tx) ==
    Cardinality({i \in 1..Len(Defects(tx)) : Defects(tx)[i].bad})

EarliestDefect(tx) ==
    Defects(tx)[CHOOSE i \in 1..Len(Defects(tx)) :
                    /\ Defects(tx)[i].bad
                    /\ \A j \in 1..(i - 1) : ~Defects(tx)[j].bad].err

C7_FirstFailureOnly ==
    (TxDone /\ TypeKnown(input))
    => IF DefectCount(input) = 0
       THEN result.tag = "Ok"
       ELSE result = EarliestDefect(input)

C7_Witness ==
    /\ TxDone
    /\ TypeEip1559(input)
    /\ DefectCount(input) >= 3
    /\ IsSome(input.chain_id)
    /\ Fits64(Unwrap(input.chain_id))
    /\ input.access_list = None
    /\ result = Err("invalid", "nonce")

(***************************************************************************)
(* C8: the destination of the essence is Create when the external `to` is  *)
(* absent and Call of the same address bytes when it is present, in the    *)
(* Legacy, Eip2930 and Eip1559 arms alike; the mapping never fails, so the *)
(* outcome of a conversion does not depend on `to`.                        *)
(***************************************************************************)
ExpectedKind(to) == IF to = None THEN Create ELSE Call(Unwrap(to))

C8_DestinationKind ==
    /\ (kind = "to" /\ Done) => result = Ok(ExpectedKind(input))
    /\ (TxDone /\ result.tag = "Ok")
       => result.val.essence.to = ExpectedKind(input.to)
    /\ TxDone
       => \A to \in OptionOf(H160Vals) :
              TransactionTryFrom([input EXCEPT !.to = to]).tag = result.tag

C8_Witness ==
    /\ TxDone
    /\ TypeEip2930(input)
    /\ input.to = Some(<<2, 1>>)
    /\ result.tag = "Ok"
    /\ result.val.essence.to = Call(<<2, 1>>)

(***************************************************************************)
(* C9: access list conversion always succeeds and keeps the order: the     *)
(* converted list is as long as the external one, item i has the address   *)
(* of external item i and the same number of storage keys, and storage key *)
(* j of item i is storage key j of external item i.  The same holds of the *)
(* access list of a converted Eip2930 or Eip1559 transaction.              *)
(***************************************************************************)
SameAccessList(ext, conv) ==
    /\ Len(conv) = Len(ext)
    /\ \A i \in 1..Len(ext) :
           /\ conv[i].address = ext[i].address
           /\ Len(conv[i].storage_keys) = Len(ext[i].storage_keys)
           /\ \A j \in 1..Len(ext[i].storage_keys) :
                  conv[i].storage_keys[j] = ext[i].storage_keys[j]

C9_AccessListOrder ==
    /\ (kind = "access_list" /\ Done)
       => /\ result.tag = "Ok"
          /\ SameAccessList(input, result.val)
    /\ (TxDone /\ result.tag = "Ok" /\ ~TypeLegacy(input))
       => SameAccessList(Unwrap(input.access_list),
                         result.val.essence.access_list)

C9_Witness ==
    /\ kind = "access_list"
    /\ Done
    /\ Len(input) = 2
    /\ Len(input[1].storage_keys) = 2
    /\ input[1].storage_keys[1] # input[1].storage_keys[2]
    /\ input[1].address # input[2].address
    /\ Len(input[2].storage_keys) = 0
    /\ result.val[1].storage_keys = input[1].storage_keys

(***************************************************************************)
(* C10: in a Legacy transaction the chain id is optional: when it is       *)
(* absent the conversion fails only for a too wide nonce or an absent gas  *)
(* price and otherwise yields chain_id = None; when it is present and fits *)
(* in 64 bits a successful conversion yields Some of the same value; when  *)
(* it is present and does not fit the conversion fails with the invalid    *)
(* chain_id error.  In Eip2930 and Eip1559 an absent chain id always fails *)
(* with the missing chain_id error.                                        *)
(***************************************************************************)
C10_LegacyChainIdOptional ==
    TxDone
    => /\ (TypeLegacy(input) /\ input.chain_id = None)
          => /\ result.tag = "Ok"
                <=> (Fits64(input.nonce) /\ IsSome(input.gas_price))
             /\ result.tag = "Ok" => result.val.essence.chain_id = None
             /\ IsErr(result) => result.field # "chain_id"
       /\ (TypeLegacy(input) /\ IsSome(input.chain_id))
          => IF Fits64(Unwrap(input.chain_id))
             THEN /\ IsErr(result) => result.field # "chain_id"
                  /\ result.tag = "Ok"
                     => result.val.essence.chain_id =
                            Some(U256Value(Unwrap(input.chain_id)))
             ELSE result = Err("invalid", "chain_id")
       /\ ((TypeEip2930(input) \/ TypeEip1559(input)) /\ input.chain_id = None)
          => result = Err("missing", "chain_id")

C10_Witness ==
    /\ TxDone
    /\ input.transaction_type = None
    /\ input.chain_id = None
    /\ input.to = None
    /\ result.tag = "Ok"
    /\ result.val.essence.variant = "Legacy"
    /\ result.val.essence.chain_id = None
    /\ result.val.essence.to = Create

====
